---- MODULE Spec2Model ----
(***************************************************************************)
(* VoiceDoc: the Streamlit script app.py and its adapters in main.py.      *)
(* One process imports main once, then every user interaction reruns the   *)
(* script app.py from its first line against the session's state.          *)
(***************************************************************************)
EXTENDS Integers, Sequences, FiniteSets, TLC

VARIABLES
    os_environ,          \* process environment: credential name -> value
    dotenv_file,         \* content of the .env file: credential name -> value
    GOOGLE_API_KEY,      \* main.py module global
    GOOGLE_MAPS_API_KEY, \* main.py module global
    pc,                  \* position of the current script run
    analysis_result,     \* st.session_state.analysis_result
    user_location,       \* st.session_state.user_location
    location_data,       \* value of the streamlit_geolocation component
    uploaded_file,       \* value of the file_uploader widget
    language,            \* value of the language selectbox
    event,               \* the interaction that triggered the current run
    analyze_button,      \* how the last run rendered the Analyze button
    transcribed_text,    \* local of the button handler
    lookup,              \* the last find_nearby_places_google call of the run
    emergency_kind,      \* kind of value the emergency lookup produced
    emergency_view,      \* what the emergency section rendered
    doctors_kind,        \* kind of value the specialty lookup produced
    doctors_view,        \* what the "Find a Doctor" tab rendered
    report_shown,        \* the tabs of the triage report were rendered
    exception,           \* the exception that ended the run, if any
    calls,               \* adapters invoked since the process started
    analyze_invoked,     \* get_ai_triage_analysis was invoked in this run
    last_click           \* outcome of the most recent Analyze click

vars == <<os_environ, dotenv_file, GOOGLE_API_KEY, GOOGLE_MAPS_API_KEY, pc,
          analysis_result, user_location, location_data, uploaded_file,
          language, event, analyze_button, transcribed_text, lookup,
          emergency_kind, emergency_view, doctors_kind, doctors_view,
          report_shown, exception, calls, analyze_invoked, last_click>>

config == <<os_environ, dotenv_file, GOOGLE_API_KEY, GOOGLE_MAPS_API_KEY>>
session == <<analysis_result, user_location>>
widgets == <<location_data, uploaded_file, language>>
places == <<lookup, emergency_kind, emergency_view, doctors_kind, doctors_view,
            report_shown>>
handler == <<transcribed_text, analyze_invoked>>

----------------------------------------------------------------------------
\* Bounds of the model

\* longest result list the places API returns
MaxPlaces == 2

----------------------------------------------------------------------------
\* Values

None == [kind |-> "None"]

Keys == {"GOOGLE_API_KEY", "GOOGLE_MAPS_API_KEY"}

\* a credential value is tagged with the place it was written in
EnvValue == [kind |-> "key", origin |-> "environment"]
FileValue == [kind |-> "key", origin |-> ".env"]

\* os.getenv(name): the value in the process environment, or None
getenv(environ, name) == environ[name]

\* load_dotenv(): copies every variable of .env that the environment lacks
load_dotenv(environ, file) ==
    [k \in Keys |-> IF environ[k] = None THEN file[k] ELSE environ[k]]

----------------------------------------------------------------------------
\* main.py: load_ai_model

\* the guard of load_ai_model: "raise" is the ValueError, "return" the model
load_ai_model(api_key) ==
    IF api_key = None
      THEN [kind |-> "raise", exc |-> "ValueError"]
      ELSE [kind |-> "return", value |-> "llm_parser"]

----------------------------------------------------------------------------
\* main.py: transcribe_audio

Transcripts == {"I have severe chest pain", "my screen says Error: 404"}

UnintelligibleText == "Error: Could not understand the audio."
UnavailableText == "Error: API request failed. Check internet."

\* a test for the unintelligible-audio string alone
ContainsErrorMarkerUnintelligible(text) == text = UnintelligibleText

\* the strings of the model that contain the substring "Error:"
ContainsErrorMarker(text) ==
    text \in {UnintelligibleText, UnavailableText, "my screen says Error: 404"}

FileTypes == {"wav", "mp3", "m4a"}
Files == [kind : {"file"}, type : FileTypes]

\* what the speech service does with a readable recording
SpeechOutcomes ==
    [kind : {"text"}, text : Transcripts]
      \cup {[kind |-> "UnknownValueError"], [kind |-> "RequestError"]}

\* sr.AudioFile reads WAV/AIFF/FLAC only and raises ValueError otherwise;
\* the two speech_recognition errors become "Error: ..." strings
transcribe_audio(file_type, speech) ==
    IF file_type # "wav"
      THEN [kind |-> "raise", exc |-> "ValueError"]
      ELSE CASE speech.kind = "text" ->
                  [kind |-> "return", value |-> speech.text]
             [] speech.kind = "UnknownValueError" ->
                  [kind |-> "return", value |-> UnintelligibleText]
             [] speech.kind = "RequestError" ->
                  [kind |-> "return", value |-> UnavailableText]

----------------------------------------------------------------------------
\* main.py: TriageResponse and get_ai_triage_analysis

Enumerated == {"Emergency", "Urgent", "Routine"}
UrgencyStrings == Enumerated \cup {"Critical"}
Specialties == {"Cardiologist", "Neurologist"}
Missing == "<missing>"

\* what the LLM call produces: an exception, text that is not JSON, or a
\* JSON object whose fields may be missing
ModelOutputs ==
    {[kind |-> "exception"], [kind |-> "not_json"]}
      \cup [kind : {"json"},
            urgency : UrgencyStrings \cup {Missing},
            suggested_specialty : Specialties \cup {Missing}]

\* TriageResponse(**obj): urgency and suggested_specialty are declared str,
\* so every string validates and only a missing field is rejected
TriageResponse(obj) ==
    IF obj.urgency = Missing \/ obj.suggested_specialty = Missing
      THEN [kind |-> "raise", exc |-> "ValidationError"]
      ELSE [kind |-> "return",
            value |-> [kind |-> "TriageResponse",
                       urgency |-> obj.urgency,
                       suggested_specialty |-> obj.suggested_specialty]]

\* chain.invoke inside try/except Exception: every failure is an error string
get_ai_triage_analysis(out) ==
    CASE out.kind = "exception" ->
           [kind |-> "str", text |-> "Error processing AI response: service"]
      [] out.kind = "not_json" ->
           [kind |-> "str", text |-> "Error processing AI response: parse"]
      [] out.kind = "json" ->
           LET parsed == TriageResponse(out)
           IN  IF parsed.kind = "return"
                 THEN parsed.value
                 ELSE [kind |-> "str",
                       text |-> "Error processing AI response: validation"]

\* isinstance(x, TriageResponse)
IsTriageResponse(x) == x.kind = "TriageResponse"

----------------------------------------------------------------------------
\* main.py: find_nearby_places_google

\* Angles are whole degrees, multiples of 60, where sine and cosine are
\* rational: Cos2(d) = 2 * cos(d).
Cos2(d) ==
    LET m == d % 360
    IN  CASE m = 0 -> 2
          [] m \in {60, 300} -> 1
          [] m \in {120, 240} -> -1
          [] m = 180 -> -2

\* 16 * a of the haversine formula,
\*   a = sin(dLat/2)^2 + cos(lat1) * cos(lat2) * sin(dLon/2)^2,
\* with sin(x/2)^2 = (1 - cos x) / 2
HaversineA16(lat1, lon1, lat2, lon2) ==
    LET dLat == lat2 - lat1
        dLon == lon2 - lon1
    IN  4 * (2 - Cos2(dLat)) + Cos2(lat1) * Cos2(lat2) * (2 - Cos2(dLon))

\* round(2 * R * asin(sqrt(k / 16))) in km with R = 6371, for k = 0 .. 16
ArcKm ==
    <<0, 3220, 4605, 5706, 6672, 7559, 8398, 9209, 10008, 10806, 11617,
      12457, 13343, 14309, 15411, 16795, 20015>>

\* dist = 2 * R * asin(sqrt(a)), to the kilometre
Haversine(lat1, lon1, lat2, lon2) ==
    ArcKm[HaversineA16(lat1, lon1, lat2, lon2) + 1]

Coordinates == {[lat |-> 0, lon |-> 0], [lat |-> 60, lon |-> 60]}

\* The places the API can return.  geometry is
\* place.get('geometry', {}).get('location', {}): absent, a pair of numbers,
\* or a pair that is not numeric; rating is absent for some places.
PlaceSet ==
    {[name |-> "A", rating |-> "4.5",
      geometry |-> [kind |-> "location", lat |-> 0, lng |-> 60]],
     [name |-> "B", rating |-> Missing,
      geometry |-> [kind |-> "location", lat |-> 60, lng |-> 60]],
     [name |-> "C", rating |-> "4.0", geometry |-> None],
     [name |-> "D", rating |-> "3.9", geometry |-> [kind |-> "not_numeric"]]}

SeqsUpTo(S, n) == UNION {[1 .. k -> S] : k \in 0 .. n}

\* what requests.get / raise_for_status / response.json() produce
ApiOutcomes ==
    {[kind |-> "ConnectionError"], [kind |-> "HTTPError"],
     [kind |-> "not_json"],
     [kind |-> "json", has_results |-> FALSE, results |-> <<>>]}
      \cup {[kind |-> "json", has_results |-> TRUE, results |-> r] :
               r \in SeqsUpTo(PlaceSet, MaxPlaces)}

\* no request is sent when the module has no maps key
NotCalled == [kind |-> "not_called"]
ApiChoices(maps_key) == IF maps_key = None THEN {NotCalled} ELSE ApiOutcomes

\* loc.get('lat', 0), loc.get('lng', 0)
LocLat(geometry) == IF geometry = None THEN 0 ELSE geometry.lat
LocLng(geometry) == IF geometry = None THEN 0 ELSE geometry.lng

\* the dict appended for one place
PlaceRow(latitude, longitude, place) ==
    [Name |-> place.name,
     Rating |-> IF place.rating = Missing THEN "N/A" ELSE place.rating,
     Distance |-> Haversine(latitude, longitude,
                            LocLat(place.geometry), LocLng(place.geometry))]

IsSorted(rows) ==
    \A i \in 1 .. Len(rows) - 1 : rows[i].Distance <= rows[i + 1].Distance

Bijections(n) ==
    {f \in [1 .. n -> 1 .. n] : \A i, j \in 1 .. n : f[i] = f[j] => i = j}

\* the rows left in the order of the response
sort_valuesUnsorted(rows) == {rows}

\* DataFrame.sort_values('Distance (km)'): the default kind is quicksort,
\* which is not stable, so every ordered rearrangement is a possible result
sort_values(rows) ==
    {[i \in 1 .. Len(rows) |-> rows[f[i]]] : f \in
        {g \in Bijections(Len(rows)) :
            IsSorted([i \in 1 .. Len(rows) |-> rows[g[i]]])}}

ConnectingError == [kind |-> "str", text |-> "Error connecting to Google Maps API"]
ParsingError ==
    [kind |-> "str", text |-> "An error occurred while parsing Google Maps data"]

DataFrame(rows) == [kind |-> "DataFrame", rows |-> rows]

\* find_nearby_places_google without the test for an empty list of places:
\* sort_values on a frame without columns raises KeyError, which is caught
find_nearby_places_googleNoEmptyTest(maps_key, latitude, longitude, api) ==
    IF maps_key = None
      THEN {[kind |-> "raise", exc |-> "ValueError"]}
      ELSE CASE api.kind \in {"ConnectionError", "HTTPError"} ->
                  {ConnectingError}
             [] api.kind = "not_json" ->
                  {ConnectingError, ParsingError}
             [] api.kind = "json" ->
                  IF ~api.has_results \/ api.results = <<>>
                    THEN {ParsingError}
                    ELSE IF \E i \in 1 .. Len(api.results) :
                                api.results[i].geometry.kind = "not_numeric"
                           THEN {ParsingError}
                           ELSE {DataFrame(r) : r \in sort_values(
                                   [i \in 1 .. Len(api.results) |->
                                      PlaceRow(latitude, longitude,
                                               api.results[i])])}

\* The possible outcomes of find_nearby_places_google: a raised ValueError
\* when the module has no maps key, an error string, or a DataFrame.
find_nearby_places_google(maps_key, latitude, longitude, api) ==
    IF maps_key = None
      THEN {[kind |-> "raise", exc |-> "ValueError"]}
      ELSE CASE api.kind \in {"ConnectionError", "HTTPError"} ->
                  {ConnectingError}
             [] api.kind = "not_json" ->
                  \* requests.JSONDecodeError is a RequestException from
                  \* requests 2.27 on and a plain ValueError before
                  {ConnectingError, ParsingError}
             [] api.kind = "json" ->
                  \* data.get('results') is falsy when absent or empty
                  IF ~api.has_results \/ api.results = <<>>
                    THEN {DataFrame(<<>>)}
                    ELSE IF \E i \in 1 .. Len(api.results) :
                                api.results[i].geometry.kind = "not_numeric"
                           THEN {ParsingError}
                           ELSE {DataFrame(r) : r \in sort_values(
                                   [i \in 1 .. Len(api.results) |->
                                      PlaceRow(latitude, longitude,
                                               api.results[i])])}

\* isinstance(df, pd.DataFrame) and not df.empty
IsNonEmptyFrame(df) == df.kind = "DataFrame" /\ df.rows # <<>>

----------------------------------------------------------------------------
\* app.py: the script

Unset == [kind |-> "unset"]
Unassigned == "<unassigned>"
Languages == {"en-IN", "hi-IN"}
NoEvent == [type |-> "none"]

Init ==
    /\ os_environ \in [Keys -> {None, EnvValue}]
    /\ dotenv_file \in [Keys -> {None, FileValue}]
    /\ GOOGLE_API_KEY = None
    /\ GOOGLE_MAPS_API_KEY = None
    /\ pc = "import"
    /\ analysis_result = Unset
    /\ user_location = Unset
    /\ location_data = None
    /\ uploaded_file = None
    /\ language = "en-IN"
    /\ event = NoEvent
    /\ analyze_button = "absent"
    /\ transcribed_text = Unassigned
    /\ lookup = None
    /\ emergency_kind = "none"
    /\ emergency_view = "none"
    /\ doctors_kind = "none"
    /\ doctors_view = "none"
    /\ report_shown = FALSE
    /\ exception = None
    /\ calls = {}
    /\ analyze_invoked = FALSE
    /\ last_click = "none"

\* app.py 7-13, the first run only: importing main evaluates its globals
ImportMain ==
    /\ pc = "import"
    /\ GOOGLE_API_KEY' = getenv(os_environ, "GOOGLE_API_KEY")
    /\ GOOGLE_MAPS_API_KEY' = getenv(os_environ, "GOOGLE_MAPS_API_KEY")
    /\ pc' = "dotenv"
    /\ UNCHANGED <<os_environ, dotenv_file, session, widgets, event,
                   analyze_button, handler, places, exception, calls,
                   last_click>>

\* app.py 24-30: load_dotenv(), then the session keys are created if absent
LoadDotenv ==
    /\ pc = "dotenv"
    /\ os_environ' = load_dotenv(os_environ, dotenv_file)
    /\ analysis_result' = IF analysis_result = Unset THEN None
                          ELSE analysis_result
    /\ user_location' = IF user_location = Unset THEN None ELSE user_location
    /\ pc' = "models"
    /\ UNCHANGED <<dotenv_file, GOOGLE_API_KEY, GOOGLE_MAPS_API_KEY, widgets,
                   event, analyze_button, handler, places, exception, calls,
                   last_click>>

\* app.py 33-37: a ValueError of load_ai_model is shown and st.stop() ends
\* the run
LoadModels ==
    /\ pc = "models"
    /\ pc' = IF load_ai_model(GOOGLE_API_KEY).kind = "raise" THEN "halted"
             ELSE "sidebar"
    /\ event' = IF load_ai_model(GOOGLE_API_KEY).kind = "raise" THEN NoEvent
                ELSE event
    /\ UNCHANGED <<config, session, widgets, analyze_button, handler, places,
                   exception, calls, last_click>>

\* geolocator.geocode(manual_city): a location, None, or an exception
GeocodeOutcomes ==
    [kind : {"location"}, at : Coordinates]
      \cup {None, [kind |-> "exception"]}

\* app.py 46-68: the sidebar
Sidebar ==
    /\ pc = "sidebar"
    /\ \E geocoded \in GeocodeOutcomes :
         LET captured == IF location_data # None THEN location_data
                         ELSE user_location
         IN  user_location' =
               IF event.type = "city" /\ geocoded.kind = "location"
                 THEN geocoded.at
                 ELSE captured
    /\ pc' = "main"
    /\ UNCHANGED <<config, analysis_result, widgets, event, analyze_button,
                   handler, places, exception, calls, last_click>>

\* a button that is never disabled
ButtonStateAlwaysEnabled(file, location) ==
    IF file = None THEN "absent" ELSE "enabled"

\* app.py 78: the button is rendered only under an uploaded file and is
\* disabled while the session has no location
ButtonState(file, location) ==
    IF file = None THEN "absent"
    ELSE IF location = None THEN "disabled"
    ELSE "enabled"

\* the click handler without the assignment of line 79
MainFlowKeepsResult ==
    /\ pc = "main"
    /\ analyze_button' = ButtonState(uploaded_file, user_location)
    /\ IF uploaded_file # None /\ event.type = "analyze"
         THEN /\ last_click' = "running"
              /\ pc' = "transcribe"
              /\ UNCHANGED analysis_result
         ELSE /\ pc' = "display"
              /\ UNCHANGED <<analysis_result, last_click>>
    /\ event' = NoEvent
    /\ UNCHANGED <<config, user_location, widgets, handler, places,
                   exception, calls>>

\* app.py 71-82: the uploader and the Analyze button; a click clears the
\* stored result before anything else.  No later line reads the widget
\* that triggered the run.
MainFlow ==
    /\ pc = "main"
    /\ analyze_button' = ButtonState(uploaded_file, user_location)
    /\ IF uploaded_file # None /\ event.type = "analyze"
         THEN /\ analysis_result' = None
              /\ last_click' = "running"
              /\ pc' = "transcribe"
         ELSE /\ pc' = "display"
              /\ UNCHANGED <<analysis_result, last_click>>
    /\ event' = NoEvent
    /\ UNCHANGED <<config, user_location, widgets, handler, places,
                   exception, calls>>

\* app.py 84-89: transcribe_audio and the test for "Error:" in its text
Transcribe ==
    /\ pc = "transcribe"
    /\ \E speech \in SpeechOutcomes :
         LET r == transcribe_audio(uploaded_file.type, speech)
         IN  IF r.kind = "raise"
               THEN /\ exception' = [exc |-> r.exc,
                                     raised_by |-> "transcribe_audio"]
                    /\ pc' = "crashed"
                    /\ last_click' = "failed"
                    /\ UNCHANGED transcribed_text
               ELSE /\ transcribed_text' = r.value
                    /\ IF ContainsErrorMarker(r.value)
                         THEN pc' = "display" /\ last_click' = "failed"
                         ELSE pc' = "analyze" /\ UNCHANGED last_click
                    /\ UNCHANGED exception
    /\ calls' = calls \cup {"transcribe"}
    /\ UNCHANGED <<config, session, widgets, event, analyze_button,
                   analyze_invoked, places>>

\* app.py 91-99: get_ai_triage_analysis and the isinstance test
Analyze ==
    /\ pc = "analyze"
    /\ \E out \in ModelOutputs :
         LET r == get_ai_triage_analysis(out)
         IN  IF IsTriageResponse(r)
               THEN analysis_result' = r /\ last_click' = "succeeded"
               ELSE analysis_result' = None /\ last_click' = "failed"
    /\ analyze_invoked' = TRUE
    /\ calls' = calls \cup {"analyze"}
    /\ pc' = "display"
    /\ UNCHANGED <<config, user_location, widgets, event, analyze_button,
                   transcribed_text, places, exception>>

\* app.py 102-108: the report starts when the session holds a TriageResponse;
\* unpacking a location of None raises TypeError
DisplayResults ==
    /\ pc = "display"
    /\ IF ~IsTriageResponse(analysis_result)
         THEN pc' = "done" /\ UNCHANGED exception
         ELSE IF user_location = None
           THEN /\ pc' = "crashed"
                /\ exception' = [exc |-> "TypeError", raised_by |-> "app"]
           ELSE /\ pc' = IF analysis_result.urgency = "Emergency"
                           THEN "emergency" ELSE "tabs"
                /\ UNCHANGED exception
    /\ UNCHANGED <<config, session, widgets, event, analyze_button, handler,
                   places, calls, last_click>>

\* st.table(df.style.format({'Rating': '{:.1f}', ...})): the format fails
\* on the string 'N/A' of a place without rating
TableRenders(df) == \A i \in 1 .. Len(df.rows) : df.rows[i].Rating # "N/A"

\* what app.py 112-115 and 144-147 render for a returned value
View(df) ==
    IF IsNonEmptyFrame(df)
      THEN IF TableRenders(df) THEN "table" ELSE "format_error"
      ELSE "warning"

\* app.py 109-115: the lookup of emergency services
EmergencyLookup ==
    /\ pc = "emergency"
    /\ \E api \in ApiChoices(GOOGLE_MAPS_API_KEY) :
       \E r \in find_nearby_places_google(GOOGLE_MAPS_API_KEY,
                    user_location.lat, user_location.lon, api) :
         /\ lookup' = [query |-> "hospital emergency",
                       latitude |-> user_location.lat,
                       longitude |-> user_location.lon,
                       api |-> api, result |-> r]
         /\ emergency_kind' = r.kind
         /\ IF r.kind = "raise"
              THEN /\ emergency_view' = "none"
                   /\ pc' = "crashed"
                   /\ exception' = [exc |-> r.exc,
                          raised_by |-> "find_nearby_places_google"]
              ELSE /\ emergency_view' = View(r)
                   /\ IF View(r) = "format_error"
                        THEN /\ pc' = "crashed"
                             /\ exception' = [exc |-> "ValueError",
                                              raised_by |-> "app"]
                        ELSE pc' = "tabs" /\ UNCHANGED exception
    /\ calls' = calls \cup {"findNearby"}
    /\ UNCHANGED <<config, session, widgets, event, analyze_button, handler,
                   doctors_kind, doctors_view, report_shown, last_click>>

\* app.py 117-147: the tabs of the report, the last one with the lookup of
\* the suggested specialty
FindADoctor ==
    /\ pc = "tabs"
    /\ report_shown' = TRUE
    /\ \E api \in ApiChoices(GOOGLE_MAPS_API_KEY) :
       \E r \in find_nearby_places_google(GOOGLE_MAPS_API_KEY,
                    user_location.lat, user_location.lon, api) :
         /\ lookup' = [query |-> analysis_result.suggested_specialty,
                       latitude |-> user_location.lat,
                       longitude |-> user_location.lon,
                       api |-> api, result |-> r]
         /\ doctors_kind' = r.kind
         /\ IF r.kind = "raise"
              THEN /\ doctors_view' = "none"
                   /\ pc' = "crashed"
                   /\ exception' = [exc |-> r.exc,
                          raised_by |-> "find_nearby_places_google"]
              ELSE /\ doctors_view' = View(r)
                   /\ IF View(r) = "format_error"
                        THEN /\ pc' = "crashed"
                             /\ exception' = [exc |-> "ValueError",
                                              raised_by |-> "app"]
                        ELSE pc' = "done" /\ UNCHANGED exception
    /\ calls' = calls \cup {"findNearby"}
    /\ UNCHANGED <<config, session, widgets, event, analyze_button, handler,
                   emergency_kind, emergency_view, last_click>>

----------------------------------------------------------------------------
\* The user: every interaction reruns app.py from its first line.  main is
\* already in sys.modules, so the rerun starts at line 24 with fresh locals.

Idle == pc \in {"done", "crashed"}

StartRun(e) ==
    /\ pc' = "dotenv"
    /\ event' = e
    /\ transcribed_text' = Unassigned
    /\ analyze_invoked' = FALSE
    /\ lookup' = None
    /\ emergency_kind' = "none"
    /\ emergency_view' = "none"
    /\ doctors_kind' = "none"
    /\ doctors_view' = "none"
    /\ report_shown' = FALSE
    /\ exception' = None
    /\ UNCHANGED <<config, calls>>

\* the geolocation component reports a position, or none
Geolocate ==
    /\ Idle
    /\ \E d \in (Coordinates \cup {None}) \ {location_data} :
         location_data' = d
    /\ StartRun([type |-> "geolocation"])
    /\ UNCHANGED <<session, uploaded_file, language, analyze_button,
                   last_click>>

\* the button "Find Location from City"
ClickFindCity ==
    /\ Idle
    /\ StartRun([type |-> "city"])
    /\ UNCHANGED <<session, widgets, analyze_button, last_click>>

\* the language selectbox
SelectLanguage ==
    /\ Idle
    /\ \E l \in Languages \ {language} : language' = l
    /\ StartRun([type |-> "language"])
    /\ UNCHANGED <<session, location_data, uploaded_file, analyze_button,
                   last_click>>

\* the file uploader: a new recording, or the recording removed
Upload ==
    /\ Idle
    /\ \E f \in (Files \cup {None}) \ {uploaded_file} :
         uploaded_file' = f
    /\ StartRun([type |-> "upload"])
    /\ UNCHANGED <<session, location_data, language, analyze_button,
                   last_click>>

\* the button "Analyze Symptoms", which takes clicks only when enabled
ClickAnalyze ==
    /\ Idle
    /\ analyze_button = "enabled"
    /\ StartRun([type |-> "analyze"])
    /\ UNCHANGED <<session, widgets, analyze_button, last_click>>

\* the page is loaded again: a new session of the same process
Reload ==
    /\ pc \in {"done", "crashed", "halted"}
    /\ analysis_result' = Unset
    /\ user_location' = Unset
    /\ location_data' = None
    /\ uploaded_file' = None
    /\ language' = "en-IN"
    /\ analyze_button' = "absent"
    /\ last_click' = "none"
    /\ StartRun(NoEvent)

Next ==
    \/ ImportMain
    \/ LoadDotenv
    \/ LoadModels
    \/ Sidebar
    \/ MainFlow
    \/ Transcribe
    \/ Analyze
    \/ DisplayResults
    \/ EmergencyLookup
    \/ FindADoctor
    \/ Geolocate
    \/ ClickFindCity
    \/ SelectLanguage
    \/ Upload
    \/ ClickAnalyze
    \/ Reload

Spec == Init /\ [][Next]_vars

----------------------------------------------------------------------------
\* Properties

\* C1: in a request whose transcription returned one of the two error
\* strings, get_ai_triage_analysis is not invoked; it is invoked, or about
\* to be, only once transcribe_audio has returned a transcript.
AnalyzeOnlyAfterTranscript ==
    /\ transcribed_text \in {UnintelligibleText, UnavailableText}
         => ~analyze_invoked /\ pc # "analyze"
    /\ (analyze_invoked \/ pc = "analyze") => transcribed_text \in Transcripts

\* a request whose audio was unintelligible has run to its end
UnintelligibleRequestEnded ==
    /\ transcribed_text = UnintelligibleText
    /\ pc = "done"
    /\ "transcribe" \in calls

\* C2: every TriageResponse held by the session has an urgency among
\* Emergency, Urgent and Routine.
TriageUrgencyEnumerated ==
    IsTriageResponse(analysis_result)
      => analysis_result.urgency \in Enumerated

\* C3: no run is ended by an exception raised inside one of the adapters.
NoExceptionEscapes ==
    exception # None
      => exception.raised_by \notin
           {"transcribe_audio", "get_ai_triage_analysis",
            "find_nearby_places_google"}

\* C4: a process configured without one of the two credentials, in the
\* environment and in .env alike, never invokes an adapter.
MissingCredentialHalts ==
    (\E k \in Keys : os_environ[k] = None /\ dotenv_file[k] = None)
      => calls = {}

\* C5: a DataFrame returned for a non-empty list of candidates is ordered by
\* non-decreasing distance and holds exactly one row per candidate.
NearbySortedAndComplete ==
    (/\ lookup # None
     /\ lookup.api.kind = "json"
     /\ lookup.api.results # <<>>
     /\ lookup.result.kind = "DataFrame")
      => LET rows == lookup.result.rows
             found == lookup.api.results
         IN  /\ \A i, j \in 1 .. Len(rows) :
                  i < j => rows[i].Distance <= rows[j].Distance
             /\ Len(rows) = Len(found)
             /\ \E f \in Bijections(Len(found)) :
                  \A i \in 1 .. Len(found) :
                    rows[i] = PlaceRow(lookup.latitude, lookup.longitude,
                                       found[f[i]])

\* a lookup whose result had to be rearranged
NearbyReordered ==
    /\ lookup # None
    /\ lookup.api.kind = "json"
    /\ Len(lookup.api.results) = 2
    /\ lookup.result.kind = "DataFrame"
    /\ lookup.result.rows[1].Name # lookup.api.results[1].name
    /\ lookup.result.rows[1].Distance < lookup.result.rows[2].Distance

\* C6: once the emergency lookup has failed, by an error string or by an
\* exception, the run still ends with the stored TriageResponse, the report
\* rendered and the specialty lookup attempted.
LookupFailureKeepsReport ==
    (pc \in {"done", "crashed"} /\ emergency_kind \in {"str", "raise"})
      => /\ IsTriageResponse(analysis_result)
         /\ report_shown
         /\ doctors_kind # "none"

\* C7: a response of zero candidates yields an empty DataFrame, and a
\* network or parse failure yields a string, never a DataFrame.
EmptyIsNotAnError ==
    lookup # None =>
      /\ (lookup.api.kind = "json" /\ lookup.api.results = <<>>)
           => lookup.result = DataFrame(<<>>)
      /\ lookup.api.kind \in {"ConnectionError", "HTTPError", "not_json"}
           => lookup.result.kind = "str"

\* a response without the key 'results' was rendered
ZeroCandidatesRendered ==
    /\ lookup # None
    /\ lookup.api.kind = "json"
    /\ ~lookup.api.has_results
    /\ doctors_view = "warning"

\* C8: when the credentials come from .env alone, the module globals hold
\* the values of that file once startup has read them, and the run is not
\* stopped.
DotenvCredentialsAreRead ==
    (pc \notin {"import", "dotenv"} /\ \A k \in Keys : os_environ[k] = FileValue)
      => /\ GOOGLE_API_KEY = FileValue
         /\ GOOGLE_MAPS_API_KEY = FileValue
         /\ pc # "halted"

\* C9: after a failed Analyze click the session holds no result, and it
\* holds a TriageResponse only if the most recent click succeeded.
NoStaleReport ==
    /\ last_click = "failed" => analysis_result = None
    /\ IsTriageResponse(analysis_result) => last_click = "succeeded"

\* a click has failed after the session had run the analysis before
ClickFailedAfterAnalysis ==
    /\ last_click = "failed"
    /\ "analyze" \in calls
    /\ ~analyze_invoked
    /\ pc \in {"done", "crashed"}

\* C10: whenever the session holds a TriageResponse it holds a location.
ResultImpliesLocation ==
    IsTriageResponse(analysis_result)
      => user_location \in Coordinates

\* a report rendered for a location that was typed in as a city
ReportAtTypedLocation ==
    /\ IsTriageResponse(analysis_result)
    /\ report_shown
    /\ location_data = None
    /\ lookup # None
    /\ lookup.latitude = user_location.lat

====
